---- MODULE Spec2Model ----
(***************************************************************************)
(* A model of fandom/wiki.py (class Wiki) of Venus: the wiki object, its   *)
(* transports, its three endpoint calls, fetch_rc and fetch_posts with the *)
(* two-request fan-out of asyncio.gather, and the poll cycle that drives   *)
(* them.                                                                   *)
(*                                                                         *)
(* Python values are modelled as follows.  An optional value is a sequence *)
(* of length 0 (None) or 1.  A str is a string, except the timestamps,     *)
(* which the code slices: they are sequences of single characters.  A dict *)
(* is a function from its keys to its values.  A decoded JSON response is  *)
(* [type |-> "dict", posts |-> the list under ["_embedded"]["doc:posts"]]; *)
(* a Python list of responses is [type |-> "list", items |-> ...].         *)
(***************************************************************************)
EXTENDS Integers, Sequences, FiniteSets, TLC

VARIABLES
    url,              \* Wiki.url (optional str)
    id,               \* Wiki.id
    last_check_time,  \* Wiki.last_check_time (an instant)
    transports,       \* Wiki.transports, a list
    registered,       \* history: the url of every add_transport call that returned
    op,               \* the method of the current (or last) call on the Wiki
    args,             \* its arguments
    pc,               \* where that call stands
    result,           \* its return value, once pc = "returned"
    error,            \* the exception it raised, once pc = "raised"
    gets,             \* the GETs it issued on the session, in order
    tasks,            \* the sub-requests asyncio.gather runs for it
    gather,           \* the future asyncio.gather returned for them
    pre,              \* the Wiki's fields when the call started
    now,              \* the clock
    pollState,        \* poll cycle: Idle, Fetching, Normalizing, Dispatching
    window,           \* poll cycle: what Idle -> Fetching captured
    fetches,          \* poll cycle: state of the two concurrent fetches
    events,           \* poll cycle: number of normalized events of the cycle
    cursor,           \* poll cycle: the event being dispatched
    delivered,        \* poll cycle: deliver calls for that event, <<transport, ok>>
    cycle             \* poll cycle: how the last cycle ended

wikiVars == <<url, id, last_check_time, transports, registered>>
callVars == <<op, args, pc, result, error, gets, tasks, gather, pre>>
pollVars == <<pollState, window, fetches, events, cursor, delivered, cycle>>
vars == <<wikiVars, callVars, pollVars, now>>

----------------------------------------------------------------------------
(* Bounds of the model. *)

MaxSec == 1          \* instants range over seconds 0..MaxSec
MaxTransports == 2   \* add_transport calls that succeed
MaxPosts == 1        \* posts in one response
MaxEvents == 2       \* events one poll cycle normalizes

----------------------------------------------------------------------------
(* Python values. *)

None == <<>>
Some(v) == <<v>>
IsNone(o) == o = <<>>
Val(o) == o[1]

\* bool(x) for an optional str, list or int: None, "", [] and 0 are falsy.
TruthyStr(o) == ~IsNone(o) /\ Val(o) # ""
TruthyList(o) == ~IsNone(o) /\ Val(o) # <<>>
TruthyInt(o) == ~IsNone(o) /\ Val(o) # 0
\* bool(x) for an optional datetime: every datetime is truthy.
TruthyTime(o) == ~IsNone(o)

EmptyDict == <<>>
\* {**a, **b}: on a common key the right operand wins.
DictMerge(a, b) == b @@ a
DictSet(d, k, v) == (k :> v) @@ d

\* sep.join(list) for a list of str.
RECURSIVE Join(_, _)
Join(list, sep) ==
    IF list = <<>> THEN ""
    ELSE IF Len(list) = 1 THEN list[1]
    ELSE list[1] \o sep \o Join(Tail(list), sep)

----------------------------------------------------------------------------
(* Instants and datetime.isoformat().  An instant is a number of           *)
(* microseconds since 2023-01-01T00:00:00 (a naive datetime).              *)

Micros == {0, 123456, 999}
Instants == {s * 1000000 + u : s \in 0..MaxSec, u \in Micros}

DigitChars == <<"0", "1", "2", "3", "4", "5", "6", "7", "8", "9">>
Digit(d) == DigitChars[d + 1]
Pad2(n) == <<Digit((n \div 10) % 10), Digit(n % 10)>>
Pad3(n) == <<Digit((n \div 100) % 10)>> \o Pad2(n)
Pad6(n) == Pad3(n \div 1000) \o Pad3(n % 1000)

\* datetime.isoformat(): YYYY-MM-DDTHH:MM:SS, followed by .ffffff only when
\* the microsecond field is not 0.
isoformat(t) ==
    LET sec == t \div 1000000
        us == t % 1000000
    IN  <<"2", "0", "2", "3", "-", "0", "1", "-">>
            \o Pad2(1 + sec \div 86400) \o <<"T">>
            \o Pad2((sec \div 3600) % 24) \o <<":">>
            \o Pad2((sec \div 60) % 60) \o <<":">>
            \o Pad2(sec % 60)
            \o (IF us = 0 THEN <<>> ELSE <<".">> \o Pad6(us))

\* s[:-3]
DropLast3(s) == SubSeq(s, 1, Len(s) - 3)

\* fetch_rc's encoding: after.isoformat() + "Z"
RcTimestamp(t) == isoformat(t) \o <<"Z">>

\* fetch_posts' encoding: before.isoformat()[:-3] + "Z"
PostsTimestamp(t) == DropLast3(isoformat(t)) \o <<"Z">>

----------------------------------------------------------------------------
(* Exceptions. *)

NoError == ""
InvalidTransportType == "InvalidTransportType"
UrlRequiredError == "RuntimeError: Wiki url is required to do this"
KeyErrorZero == "KeyError: 0"
NoneTypeError == "TypeError: unsupported operand type(s) for +: 'NoneType' and 'str'"
\* what session.get and resp.json raise: the connection or the decoding failed
HttpErrors == {"ClientConnectionError", "ContentTypeError"}

----------------------------------------------------------------------------
(* Responses. *)

PostIds == {1, 2}
PostLists == UNION {[1..n -> PostIds] : n \in 0..MaxPosts}
Response(posts) == [type |-> "dict", posts |-> posts]
Responses == {Response(ps) : ps \in PostLists}
PyNone == [type |-> "None"]
PyList(items) == [type |-> "list", items |-> items]

----------------------------------------------------------------------------
(* The three endpoint calls, up to their session.get.  Each yields either  *)
(* the exception raised before any request, or the GET it issues.          *)

NoGet == [url |-> "", params |-> EmptyDict]
Raise(e) == [raised |-> TRUE, error |-> e, get |-> NoGet]
Get(u, params) == [raised |-> FALSE, error |-> NoError,
                   get |-> [url |-> u, params |-> params]]

\* self.url + "/api.php"
api(params) ==
    IF IsNone(url) THEN Raise(NoneTypeError)
    ELSE Get(Val(url) \o "/api.php", params)

\* f"https://services.fandom.com/{service}/{self.id}/{url}"
services(service, path, params) ==
    Get("https://services.fandom.com/" \o service \o "/" \o id \o "/" \o path,
        params)

\* query_nirvana with "if self.url is None" for "if not self.url"
query_nirvana_none_only(params) ==
    IF IsNone(url) THEN Raise(UrlRequiredError)
    ELSE Get(Val(url) \o "/wikia.php", DictSet(params, "format", "json"))

query_nirvana(params) ==
    IF ~TruthyStr(url) THEN Raise(UrlRequiredError)
    ELSE Get(Val(url) \o "/wikia.php", DictSet(params, "format", "json"))

----------------------------------------------------------------------------
(* add_transport *)

DiscordTransport(u) == [type |-> "discord", url |-> u]

\* add_transport with insert(0, ...) for append
add_transport_front(type, u) ==
    IF type = "discord"
    THEN [raised |-> FALSE, error |-> NoError,
          transports |-> <<DiscordTransport(u)>> \o transports]
    ELSE [raised |-> TRUE, error |-> InvalidTransportType,
          transports |-> transports]

\* the transports list after add_transport(type, url), or the exception
add_transport(type, u) ==
    IF type = "discord"
    THEN [raised |-> FALSE, error |-> NoError,
          transports |-> Append(transports, DiscordTransport(u))]
    ELSE [raised |-> TRUE, error |-> InvalidTransportType,
          transports |-> transports]

----------------------------------------------------------------------------
(* fetch_rc *)

\* str(ns) of a small non-negative int
IntStr(n) == IF n < 10 THEN Digit(n) ELSE Digit(n \div 10) \o Digit(n % 10)

\* [str(ns) for ns in namespaces]
RECURSIVE IntStrs(_)
IntStrs(list) ==
    IF list = <<>> THEN <<>> ELSE <<IntStr(list[1])>> \o IntStrs(Tail(list))

fetch_rc_params(a) ==
    LET p0 == [action |-> "query", list |-> "recentchanges|logevents",
               format |-> "json"]
        p1 == IF TruthyInt(a.limit)
              THEN DictSet(DictSet(p0, "rclimit", Val(a.limit)),
                           "lelimit", Val(a.limit))
              ELSE p0
        p2 == IF TruthyList(a.types)
              THEN DictSet(p1, "rctype", Join(Val(a.types), "|")) ELSE p1
        p3 == IF TruthyList(a.show)
              THEN DictSet(p2, "rcshow", Join(Val(a.show), "|")) ELSE p2
        p4 == IF TruthyList(a.recent_changes_props)
              THEN DictSet(p3, "rcprop", Join(Val(a.recent_changes_props), "|"))
              ELSE p3
        p5 == IF TruthyList(a.logevents_props)
              THEN DictSet(p4, "leprop", Join(Val(a.logevents_props), "|"))
              ELSE p4
        p6 == IF TruthyTime(a.after)
              THEN DictSet(DictSet(p5, "rcend", RcTimestamp(Val(a.after))),
                           "leend", RcTimestamp(Val(a.after)))
              ELSE p5
        p7 == IF TruthyTime(a.before)
              THEN DictSet(DictSet(p6, "rcstart", RcTimestamp(Val(a.before))),
                           "lestart", RcTimestamp(Val(a.before)))
              ELSE p6
        p8 == IF TruthyList(a.namespaces)
              THEN DictSet(p7, "namespaces",
                           Join(IntStrs(Val(a.namespaces)), "|"))
              ELSE p7
    IN  p8

----------------------------------------------------------------------------
(* fetch_posts *)

DefaultContainers == <<"ARTICLE_COMMENT", "FORUM", "WALL">>

\* lines 102-108: limit, until, since
fetch_posts_params(a) ==
    LET p0 == EmptyDict
        p1 == IF TruthyInt(a.limit) THEN DictSet(p0, "limit", Val(a.limit))
              ELSE p0
        p2 == IF TruthyTime(a.before)
              THEN DictSet(p1, "until", PostsTimestamp(Val(a.before))) ELSE p1
        p3 == IF TruthyTime(a.after)
              THEN DictSet(p2, "since", PostsTimestamp(Val(a.after))) ELSE p2
    IN  p3

\* line 111 with "== 1" for "!= 2"
SingleRequestOnlyOne(containers) == Len(containers) = 1

\* line 111: the branch that makes one request
SingleRequest(containers) == Len(containers) # 2

\* The int key 0 of the subscript params[0].  The keys of params are the str
\* keys set above; an int never equals a str, so the key is never present.
IntKey0 == "<int 0>"

\* lines 113-114: params["containerType"] = params[0]
container_filter(params, containers) ==
    IF Len(containers) = 1
    THEN IF IntKey0 \in DOMAIN params
         THEN [raised |-> FALSE, error |-> NoError,
               params |-> DictSet(params, "containerType", params[IntKey0])]
         ELSE [raised |-> TRUE, error |-> KeyErrorZero, params |-> params]
    ELSE [raised |-> FALSE, error |-> NoError, params |-> params]

\* line 115: query_nirvana(controller="DiscussionPost", method="getPosts", params unpacked)
nirvana_posts(params) ==
    query_nirvana(DictMerge([controller |-> "DiscussionPost",
                             method |-> "getPosts"], params))

\* line 118: {"containerType": t, **params}
TaskParams(t, params) == DictMerge([containerType |-> t], params)

\* line 118: one services coroutine per container
NewTask(t, params) ==
    [state |-> "created", params |-> TaskParams(t, params),
     resp |-> PyNone, err |-> NoError]

\* line 120 with the two lists the other way round
MergePostsSecondFirst(data) ==
    [data EXCEPT ![1] = Response(data[2].posts \o data[1].posts)]

\* line 120: data[0]["_embedded"]["doc:posts"].extend(data[1][...]); a list
\* shorter than 2 has no data[0] or data[1].
MergePosts(data) ==
    [data EXCEPT ![1] = Response(data[1].posts \o data[2].posts)]

\* line 122: return data
fetch_posts_return(data) == PyList(data)

----------------------------------------------------------------------------
(* asyncio.gather over the tasks *)

\* state and exc are the future's; first (the task that finished first) and
\* by (the task whose exception was set on the future) are history.
NoGather == [state |-> "none", exc |-> NoError, first |-> 0, by |-> 0]
NewGather(n) ==
    [NoGather EXCEPT !.state = IF n = 0 THEN "result" ELSE "pending"]

\* gather that waits for every task before it raises
GatherAfterAll(g, ts, i) ==
    LET h == [g EXCEPT !.first = IF @ = 0 THEN i ELSE @]
        bad == {j \in DOMAIN ts : ts[j].state = "failed"}
        one == CHOOSE j \in bad : \A k \in bad : j <= k
    IN  IF g.state # "pending" THEN h
        ELSE IF \E j \in DOMAIN ts : ts[j].state \in {"created", "pending"}
             THEN h
        ELSE IF bad # {}
             THEN [h EXCEPT !.state = "exception", !.exc = ts[one].err,
                            !.by = one]
        ELSE [h EXCEPT !.state = "result"]

\* The future of gather after task i finished, ts being the tasks then: the
\* first exception is set on it at once; the list of results once all tasks
\* are done; a future already done is left alone.
GatherAfter(g, ts, i) ==
    LET h == [g EXCEPT !.first = IF @ = 0 THEN i ELSE @] IN
    IF g.state # "pending" THEN h
    ELSE IF ts[i].state = "failed"
         THEN [h EXCEPT !.state = "exception", !.exc = ts[i].err, !.by = i]
    ELSE IF \A j \in DOMAIN ts : ts[j].state = "done"
         THEN [h EXCEPT !.state = "result"]
    ELSE h

\* The result of gather: the tasks' results in the order of the awaitables.
GatherResult(ts) == [i \in DOMAIN ts |-> ts[i].resp]

----------------------------------------------------------------------------
(* Inputs. *)

Urls == {None, Some(""), Some("https://wiki.example")}
TransportTypes == {"discord", "slack"}
HookUrls == {"hookA", "hookB"}
Limits == {None, Some(0), Some(5)}
ContainerLists ==
    {<<>>, <<"FORUM">>, <<"FORUM", "WALL">>, <<"WALL", "FORUM">>,
     DefaultContainers}
MinInstant == CHOOSE t \in Instants : \A u \in Instants : t <= u
MaxInstant == CHOOSE t \in Instants : \A u \in Instants : u <= t
\* before and after: neither, either one, or the widest window
TimeArgs ==
    {[before |-> None, after |-> None]}
        \cup {[before |-> Some(t), after |-> None] : t \in Instants}
        \cup {[before |-> None, after |-> Some(t)] : t \in Instants}
        \cup {[before |-> Some(MaxInstant), after |-> Some(MinInstant)]}
\* every limit without a window, and every window without a limit
FetchPostsArgs ==
    {[limit |-> l, containers |-> c, before |-> None, after |-> None] :
        l \in Limits, c \in ContainerLists}
        \cup {[limit |-> None, containers |-> c, before |-> w.before,
               after |-> w.after] : c \in ContainerLists, w \in TimeArgs}
RcNone ==
    [limit |-> None, types |-> None, show |-> None,
     recent_changes_props |-> None, logevents_props |-> None,
     before |-> None, after |-> None, namespaces |-> None]
FetchRcArgs ==
    {RcNone}
        \cup {[limit |-> Some(5), types |-> Some(<<"edit", "new">>),
               show |-> Some(<<"!bot">>),
               recent_changes_props |-> Some(<<"title", "ids">>),
               logevents_props |-> Some(<<>>),
               before |-> Some(t), after |-> Some(MinInstant),
               namespaces |-> Some(<<0, 14>>)] : t \in Instants}
ApiParams == {EmptyDict, [action |-> "query", format |-> "json"]}
NirvanaParams == {EmptyDict, [controller |-> "Feeds", format |-> "xml"]}
ServicesParams == {EmptyDict, [containerType |-> "WALL"]}

----------------------------------------------------------------------------
(* State. *)

WikiFields ==
    [url |-> url, id |-> id, last_check_time |-> last_check_time,
     transports |-> transports]

NoArgs == [none |-> TRUE]
NoWindow == [start |-> MinInstant, end |-> MinInstant, transports |-> 0]
NoFetches == [rc |-> "none", posts |-> "none"]
NoCycle == [outcome |-> "none", cause |-> "none", failed |-> FALSE]

\* Wiki.__init__; the clock starts at the checkpoint the Wiki is given.
Init ==
    /\ url \in Urls
    /\ id = "w1"
    /\ last_check_time = MinInstant
    /\ transports = <<>>
    /\ registered = <<>>
    /\ op = "none" /\ args = NoArgs /\ pc = "idle"
    /\ result = PyNone /\ error = NoError
    /\ gets = <<>> /\ tasks = <<>> /\ gather = NoGather
    /\ pre = WikiFields
    /\ now = MinInstant
    /\ pollState = "Idle" /\ window = NoWindow /\ fetches = NoFetches
    /\ events = 0 /\ cursor = 0 /\ delivered = {} /\ cycle = NoCycle

\* One call on the Wiki at a time.
CanCall == pc = "idle"

\* A call starts: its record is fresh.
Begin(name, a) ==
    /\ CanCall
    /\ op' = name /\ args' = a /\ pre' = WikiFields

\* A call ended by an exception before any request.
Raised(e) ==
    /\ pc' = "raised" /\ error' = e /\ result' = PyNone
    /\ gets' = <<>> /\ tasks' = <<>> /\ gather' = NoGather

\* A call that issued its one GET and awaits resp.json().
Awaiting(g) ==
    /\ pc' = "awaiting" /\ error' = NoError /\ result' = PyNone
    /\ gets' = <<g>> /\ tasks' = <<>> /\ gather' = NoGather

\* An endpoint call or a fetch that ends in one: the exception, or the GET.
Issue(r) == IF r.raised THEN Raised(r.error) ELSE Awaiting(r.get)

----------------------------------------------------------------------------
(* Calls. *)

AddTransport(types, hooks) ==
    \E type \in types, u \in hooks :
        LET r == add_transport(type, u) IN
        /\ Begin("add_transport", [type |-> type, url |-> u])
        /\ r.raised \/ Len(transports) < MaxTransports
        /\ transports' = r.transports
        /\ registered' = IF r.raised THEN registered ELSE Append(registered, u)
        /\ pc' = IF r.raised THEN "raised" ELSE "returned"
        /\ error' = r.error /\ result' = PyNone
        /\ gets' = <<>> /\ tasks' = <<>> /\ gather' = NoGather
        /\ UNCHANGED <<url, id, last_check_time, now, pollVars>>

Api(P) ==
    \E params \in P :
        /\ Begin("api", [params |-> params])
        /\ Issue(api(params))
        /\ UNCHANGED <<wikiVars, now, pollVars>>

Services(P) ==
    \E params \in P :
        /\ Begin("services",
                 [service |-> "discussion", url |-> "posts", params |-> params])
        /\ Issue(services("discussion", "posts", params))
        /\ UNCHANGED <<wikiVars, now, pollVars>>

QueryNirvana(P) ==
    \E params \in P :
        /\ Begin("query_nirvana", [params |-> params])
        /\ Issue(query_nirvana(params))
        /\ UNCHANGED <<wikiVars, now, pollVars>>

FetchRc(A) ==
    \E a \in A :
        /\ Begin("fetch_rc", a)
        /\ Issue(api(fetch_rc_params(a)))
        /\ UNCHANGED <<wikiVars, now, pollVars>>

\* fetch_posts up to its first await
FetchPosts(A) ==
    \E a \in A :
        LET params == fetch_posts_params(a)
            f == container_filter(params, a.containers)
        IN  /\ Begin("fetch_posts", a)
            /\ IF SingleRequest(a.containers)
               THEN IF f.raised THEN Raised(f.error)
                    ELSE Issue(nirvana_posts(f.params))
               ELSE /\ pc' = "gathering" /\ error' = NoError /\ result' = PyNone
                    /\ gets' = <<>>
                    /\ tasks' = [i \in DOMAIN a.containers |->
                                    NewTask(a.containers[i], params)]
                    /\ gather' = NewGather(Len(a.containers))
            /\ UNCHANGED <<wikiVars, now, pollVars>>

\* resp.json() of the one GET of a call returns, or the request fails
Respond(R) ==
    /\ pc = "awaiting"
    /\ \/ \E r \in R :
            /\ pc' = "returned" /\ result' = r /\ error' = NoError
       \/ \E e \in HttpErrors :
            /\ pc' = "raised" /\ error' = e /\ result' = PyNone
    /\ UNCHANGED <<op, args, gets, tasks, gather, pre, wikiVars, now, pollVars>>

\* The first step of a task: its services call issues its GET.  The event
\* loop runs the tasks' first steps in the order gather created them, before
\* any callback of a finished task.
TaskStart(i) ==
    /\ i \in DOMAIN tasks
    /\ tasks[i].state = "created"
    /\ \A j \in 1..(i - 1) : tasks[j].state # "created"
    /\ gets' = Append(gets, services("discussion", "posts", tasks[i].params).get)
    /\ tasks' = [tasks EXCEPT ![i].state = "pending"]
    /\ UNCHANGED <<op, args, pc, result, error, gather, pre, wikiVars, now,
                   pollVars>>

\* A task finishes, in any order, also after fetch_posts has raised; its done
\* callback tells the gather future.
TaskFinish(i, R) ==
    /\ i \in DOMAIN tasks
    /\ tasks[i].state = "pending"
    /\ \A j \in DOMAIN tasks : tasks[j].state # "created"
    /\ \E ts \in {[tasks EXCEPT ![i].state = "done", ![i].resp = r] : r \in R}
              \cup {[tasks EXCEPT ![i].state = "failed", ![i].err = e] :
                        e \in HttpErrors} :
            /\ tasks' = ts
            /\ gather' = GatherAfter(gather, ts, i)
    /\ UNCHANGED <<op, args, pc, result, error, gets, pre, wikiVars, now,
                   pollVars>>

\* await asyncio.gather(...) resumes fetch_posts: lines 119-122
GatherResume ==
    /\ pc = "gathering"
    /\ gather.state \in {"result", "exception"}
    /\ IF gather.state = "exception"
       THEN /\ pc' = "raised" /\ error' = gather.exc /\ result' = PyNone
       ELSE LET data == GatherResult(tasks) IN
            IF Len(data) < 2
            THEN /\ pc' = "raised" /\ error' = "IndexError" /\ result' = PyNone
            ELSE /\ pc' = "returned" /\ error' = NoError
                 /\ result' = fetch_posts_return(MergePosts(data))
    /\ UNCHANGED <<op, args, gets, tasks, gather, pre, wikiVars, now, pollVars>>

\* The caller has taken the return value or the exception, and the tasks the
\* call left behind have finished: the call is over.
Finish ==
    /\ pc \in {"returned", "raised"}
    /\ \A i \in DOMAIN tasks : tasks[i].state \in {"done", "failed"}
    /\ op' = "none" /\ args' = NoArgs /\ pc' = "idle"
    /\ result' = PyNone /\ error' = NoError
    /\ gets' = <<>> /\ tasks' = <<>> /\ gather' = NoGather
    /\ pre' = WikiFields
    /\ UNCHANGED <<wikiVars, now, pollVars>>

Next ==
    \/ AddTransport(TransportTypes, HookUrls)
    \/ Api(ApiParams)
    \/ Services(ServicesParams)
    \/ QueryNirvana(NirvanaParams)
    \/ FetchRc(FetchRcArgs)
    \/ FetchPosts(FetchPostsArgs)
    \/ Respond(Responses)
    \/ \E i \in 1..3 : TaskStart(i)
    \/ \E i \in 1..3 : TaskFinish(i, Responses)
    \/ GatherResume
    \/ Finish

Spec == Init /\ [][Next]_vars

----------------------------------------------------------------------------
(* The poll cycle: Idle -> Fetching -> Normalizing -> Dispatching -> Idle. *)

\* The readings of the clock the cycles see.
Readings == {t \in Instants : t = MinInstant \/ t % 1000000 = 123456}

\* The clock advances.
Tick ==
    /\ \E t \in Readings : t > now /\ now' = t
    /\ UNCHANGED <<wikiVars, callVars, pollVars>>

\* Idle -> Fetching: the window is captured and the two fetches start.
PollStart ==
    /\ pollState = "Idle"
    /\ pollState' = "Fetching"
    /\ window' = [start |-> last_check_time, end |-> now,
                  transports |-> Len(transports)]
    /\ fetches' = [rc |-> "pending", posts |-> "pending"]
    /\ events' = 0 /\ cursor' = 0 /\ delivered' = {}
    /\ cycle' = [outcome |-> "running", cause |-> "none", failed |-> FALSE]
    /\ UNCHANGED <<wikiVars, callVars, now>>

\* The requests the two fetches of a cycle make, by the code of the Wiki.
PollRequest(which) ==
    IF which = "rc"
    THEN api(fetch_rc_params([RcNone EXCEPT !.after = Some(window.start),
                                            !.before = Some(window.end)]))
    ELSE nirvana_posts(fetch_posts_params(
            [limit |-> None, containers |-> DefaultContainers,
             after |-> Some(window.start), before |-> Some(window.end)]))

\* One of the two concurrent fetches completes or fails.
PollFetchDone(which) ==
    /\ pollState = "Fetching"
    /\ fetches[which] = "pending"
    /\ \E o \in {"ok", "failed"} :
        /\ o = "ok" => ~PollRequest(which).raised
        /\ fetches' = [fetches EXCEPT ![which] = o]
    /\ UNCHANGED <<wikiVars, callVars, now, pollState, window, events, cursor,
                   delivered, cycle>>

\* a failed cycle that writes the checkpoint all the same
AbortAdvancing(cause) ==
    /\ pollState' = "Idle"
    /\ cycle' = [outcome |-> "failed", cause |-> cause,
                 failed |-> cycle.failed]
    /\ fetches' = NoFetches /\ window' = NoWindow
    /\ events' = 0 /\ cursor' = 0 /\ delivered' = {}
    /\ last_check_time' = window.end
    /\ UNCHANGED <<url, id, transports, registered, callVars, now>>

\* The cycle ends without success, for the cause given (a fetch, the
\* normalization, a cancellation, a deliver): back to Idle, the checkpoint as
\* it was.
Abort(cause) ==
    /\ pollState' = "Idle"
    /\ cycle' = [outcome |-> "failed", cause |-> cause,
                 failed |-> cycle.failed]
    /\ fetches' = NoFetches /\ window' = NoWindow
    /\ events' = 0 /\ cursor' = 0 /\ delivered' = {}
    /\ UNCHANGED <<wikiVars, callVars, now>>

\* Both fetches are in: on to Normalizing, or the cycle fails.
PollFetchJoin ==
    /\ pollState = "Fetching"
    /\ fetches.rc # "pending" /\ fetches.posts # "pending"
    /\ IF fetches.rc = "ok" /\ fetches.posts = "ok"
       THEN /\ pollState' = "Normalizing"
            /\ UNCHANGED <<wikiVars, callVars, now, window, fetches, events,
                           cursor, delivered, cycle>>
       ELSE Abort("fetch")

\* Normalizing yields the events of the cycle, or fails.
PollNormalize ==
    /\ pollState = "Normalizing"
    /\ \/ /\ \E n \in 0..MaxEvents : events' = n
          /\ pollState' = "Dispatching"
          /\ cursor' = 1 /\ delivered' = {}
          /\ UNCHANGED <<wikiVars, callVars, now, window, fetches, cycle>>
       \/ Abort("normalize")

\* a dispatcher that lets a failed deliver end the cycle
AfterDeliverAborting(ok) == IF ok THEN "Dispatching" ELSE "Idle"

\* What a deliver call that returned ok (or failed) does to the cycle: a
\* failure is logged and nothing more.
AfterDeliver(ok) == "Dispatching"

\* deliver of the current event on transport t, which succeeds or fails
PollDeliver(t) ==
    /\ pollState = "Dispatching"
    /\ cursor <= events
    /\ t \in 1..window.transports
    /\ \A d \in delivered : d[1] # t
    /\ \E ok \in BOOLEAN :
        IF AfterDeliver(ok) = "Dispatching"
        THEN /\ delivered' = delivered \cup {<<t, ok>>}
             /\ cycle' = [cycle EXCEPT !.failed = @ \/ ~ok]
             /\ UNCHANGED <<pollState, window, fetches, events, cursor>>
             /\ UNCHANGED <<wikiVars, callVars, now>>
        ELSE Abort("deliver")

\* The fan-out of the current event has joined: on to the next event.
PollNextEvent ==
    /\ pollState = "Dispatching"
    /\ cursor <= events
    /\ \A t \in 1..window.transports : \E d \in delivered : d[1] = t
    /\ cursor' = cursor + 1 /\ delivered' = {}
    /\ UNCHANGED <<wikiVars, callVars, now, pollState, window, fetches, events,
                   cycle>>

\* The checkpoint a cycle that dispatched every event leaves.
Checkpoint == window.end

\* Dispatching is complete: the checkpoint advances, back to Idle.
PollFinish ==
    /\ pollState = "Dispatching"
    /\ cursor > events
    /\ last_check_time' = Checkpoint
    /\ pollState' = "Idle"
    /\ cycle' = [outcome |-> "success", cause |-> "none",
                 failed |-> cycle.failed]
    /\ fetches' = NoFetches /\ window' = NoWindow
    /\ events' = 0 /\ cursor' = 0 /\ delivered' = {}
    /\ UNCHANGED <<url, id, transports, registered, callVars, now>>

\* The cycle is cancelled between a fan-out and its join.
PollCancel ==
    /\ pollState # "Idle"
    /\ Abort("cancel")

PollNext ==
    \/ Tick
    \/ PollStart
    \/ \E which \in {"rc", "posts"} : PollFetchDone(which)
    \/ PollFetchJoin
    \/ PollNormalize
    \/ \E t \in 1..MaxTransports : PollDeliver(t)
    \/ PollNextEvent
    \/ PollFinish
    \/ PollCancel
    \/ AddTransport(TransportTypes, {"hookA"})
    \/ Api({EmptyDict})
    \/ Services({EmptyDict})
    \/ QueryNirvana({EmptyDict})
    \/ FetchRc({RcNone})
    \/ FetchPosts({[limit |-> None, containers |-> DefaultContainers,
                    before |-> None, after |-> None]})
    \/ Respond({Response(<<>>)})
    \/ Finish

PollSpec == Init /\ [][PollNext]_vars

----------------------------------------------------------------------------
(* Properties. *)

IsFetchPosts(n) == op = "fetch_posts" /\ pc # "idle" /\ Len(args.containers) = n
ServicesPostsUrl == "https://services.fandom.com/discussion/" \o id \o "/posts"
Failed == {i \in DOMAIN tasks : tasks[i].state = "failed"}

\* C1: fetch_posts with exactly one container c, on a wiki with a non-empty
\* url, issues exactly one remote call, that call carries containerType = c,
\* and fetch_posts returns that call's response: it ends in no error other
\* than that call's own failure.
C1_SingleContainerOneFilteredCall ==
    (IsFetchPosts(1) /\ TruthyStr(url)) =>
        /\ Len(gets) = 1
        /\ "containerType" \in DOMAIN gets[1].params
        /\ gets[1].params.containerType = args.containers[1]
        /\ pc = "raised" => error \in HttpErrors

\* C2: fetch_posts with two containers [c1, c2] issues exactly two services
\* calls, the first with containerType = c1 and the second with containerType
\* = c2; it returns only after both have completed; and whichever completed
\* first, the merged post list is the posts of the c1 call followed by the
\* posts of the c2 call.
C2_FanOutMergesInContainerOrder ==
    IsFetchPosts(2) =>
        /\ Len(gets) <= 2
        /\ \A i \in DOMAIN gets :
            /\ gets[i].url = ServicesPostsUrl
            /\ gets[i].params.containerType = args.containers[i]
        /\ pc \in {"returned", "raised"} => Len(gets) = 2
        /\ pc = "returned" =>
            /\ \A i \in DOMAIN tasks : tasks[i].state = "done"
            /\ result.items[1].posts = tasks[1].resp.posts \o tasks[2].resp.posts

\* Two containers, the second request completed first, and the posts of the
\* first are not in sorted order with those of the second.
C2_Witness ==
    /\ IsFetchPosts(2) /\ pc = "returned"
    /\ args.containers = <<"FORUM", "WALL">>
    /\ gather.first = 2
    /\ tasks[1].resp.posts = <<2>> /\ tasks[2].resp.posts = <<1>>
    /\ result.items[1].posts = <<2, 1>>

\* What C3 says of a call once it is past its first step: one GET, to the
\* wiki's wikia.php with controller=DiscussionPost and method=getPosts, with
\* no containerType, and no per-container services call.
OneUnfilteredNirvanaCall ==
    /\ tasks = <<>>
    /\ Len(gets) = 1
    /\ ~IsNone(url) /\ gets[1].url = Val(url) \o "/wikia.php"
    /\ {"controller", "method"} \subseteq DOMAIN gets[1].params
    /\ gets[1].params.controller = "DiscussionPost"
    /\ gets[1].params.method = "getPosts"
    /\ "containerType" \notin DOMAIN gets[1].params

NeitherOneNorTwo ==
    op = "fetch_posts" /\ pc # "idle" /\ Len(args.containers) \notin {1, 2}

\* C3 (as amended): on a wiki with a non-empty url, fetch_posts with the
\* default three containers, or any number of containers other than 1 or 2,
\* issues exactly one remote call, to the nirvana endpoint with no
\* containerType, and no per-container services call.
C3_DefaultSetOneNirvanaCall ==
    (NeitherOneNorTwo /\ TruthyStr(url)) => OneUnfilteredNirvanaCall

C3_Witness ==
    /\ NeitherOneNorTwo /\ args.containers = DefaultContainers
    /\ pc = "returned" /\ Len(gets) = 1

\* C3 (as stated): every fetch_posts call with the default three containers,
\* or any number of containers other than 1 or 2, issues exactly one remote
\* call, to the nirvana endpoint with no containerType.
C3_AsStated == NeitherOneNorTwo => OneUnfilteredNirvanaCall

\* The instant t in ISO-8601 form cut to milliseconds, followed by Z: the
\* date, the time, a point, exactly three digits, Z.
MillisecondForm(t) ==
    isoformat(t - (t % 1000000)) \o <<".">> \o Pad3((t % 1000000) \div 1000)
        \o <<"Z">>

\* C6: for every timestamp passed as before or after to fetch_posts, also one
\* whose sub-second part is zero, the until/since parameter sent is the
\* timestamp's ISO-8601 form cut to milliseconds followed by Z.
C6_MillisecondTimestamps ==
    (op = "fetch_posts" /\ pc # "idle") =>
        \A i \in DOMAIN gets :
            /\ TruthyTime(args.before) =>
                /\ "until" \in DOMAIN gets[i].params
                /\ gets[i].params.until = MillisecondForm(Val(args.before))
            /\ TruthyTime(args.after) =>
                /\ "since" \in DOMAIN gets[i].params
                /\ gets[i].params.since = MillisecondForm(Val(args.after))

RoutesThroughNirvana ==
    /\ pc # "idle"
    /\ \/ op = "query_nirvana"
       \/ op = "fetch_posts" /\ Len(args.containers) \notin {1, 2}

\* C7: with an empty or unset url, every query_nirvana call, and every
\* fetch_posts call that goes through it, fails with the url-required error
\* before any GET is issued and leaves url, id, last_check_time and
\* transports as they were; with a non-empty url it never fails with that
\* error.
C7_UrlRequiredBeforeAnyGet ==
    RoutesThroughNirvana =>
        IF TruthyStr(url)
        THEN error # UrlRequiredError
        ELSE /\ pc = "raised" /\ error = UrlRequiredError
             /\ gets = <<>>
             /\ WikiFields = pre

C7_Witness ==
    /\ op = "fetch_posts" /\ pc = "raised" /\ url = Some("")
    /\ args.containers = DefaultContainers /\ error = UrlRequiredError

\* C8: add_transport with an unrecognized type fails with
\* InvalidTransportType and leaves the transports as they were; with
\* "discord" it appends exactly one transport at the end; the transports are
\* always one per successful call, in call order; and no step removes or
\* moves a transport.
C8_TransportRegistration ==
    /\ [](/\ (op = "add_transport" /\ pc # "idle") =>
                IF args.type = "discord"
                THEN /\ pc = "returned"
                     /\ transports =
                            Append(pre.transports, DiscordTransport(args.url))
                ELSE /\ pc = "raised" /\ error = InvalidTransportType
                     /\ transports = pre.transports
          /\ transports =
                [k \in DOMAIN registered |-> DiscordTransport(registered[k])])
    /\ [][/\ Len(transports') >= Len(transports)
          /\ SubSeq(transports', 1, Len(transports)) = transports]_vars

C8_Witness ==
    /\ op = "add_transport" /\ pc = "raised" /\ args.type = "slack"
    /\ transports = <<DiscordTransport("hookB"), DiscordTransport("hookA")>>

\* C9: with two containers fetch_posts returns one response structure, the
\* first response with the second response's posts appended to its post
\* list, and not a collection of the two responses.
C9_ReturnsOneMergedResponse ==
    (IsFetchPosts(2) /\ pc = "returned") =>
        /\ result.type = "dict"
        /\ result.posts = tasks[1].resp.posts \o tasks[2].resp.posts

\* C10: in the two-container fan-out, once a sub-request has failed,
\* whichever one and whether before or after the other completed, the only
\* way on for fetch_posts is to raise; it raises the failure of a
\* sub-request that failed (the first to fail), returns nothing, and no
\* merge is made.
C10_SubRequestFailurePropagates ==
    (IsFetchPosts(2) /\ Failed # {}) =>
        /\ pc \in {"gathering", "raised"}
        /\ gather.state = "exception"
        /\ gather.by \in Failed /\ gather.exc = tasks[gather.by].err
        /\ result = PyNone
        /\ pc = "raised" => error = tasks[gather.by].err

\* The first request completed, then the second failed, and fetch_posts
\* raised the second's failure.
C10_Witness ==
    /\ IsFetchPosts(2) /\ pc = "raised"
    /\ gather.first = 1 /\ tasks[1].state = "done"
    /\ tasks[2].state = "failed" /\ error = tasks[2].err

CycleEnds(o) ==
    pollState # "Idle" /\ pollState' = "Idle" /\ cycle'.outcome = o

C5_TransportIsolation ==
    [][/\ cycle'.cause # "deliver"
       /\ (pollState = "Dispatching" /\ delivered' # delivered
                /\ delivered' # {}) =>
            /\ pollState' = "Dispatching" /\ cursor' = cursor
            /\ delivered \subseteq delivered'
       /\ (pollState = "Dispatching" /\ pollState' = "Dispatching"
                /\ cursor' # cursor) =>
            /\ cursor' = cursor + 1
            /\ \A t \in 1..window.transports : \E d \in delivered : d[1] = t
       /\ CycleEnds("success") =>
            /\ pollState = "Dispatching" /\ cursor > events
            /\ last_check_time' = window.end]_vars

\* Two transports, the second event of a cycle: deliver failed on the first
\* transport and was still invoked on the second.
C5_Witness ==
    /\ pollState = "Dispatching" /\ window.transports = 2 /\ cursor = 2
    /\ delivered = {<<1, FALSE>>, <<2, TRUE>>}

====
